---- MODULE Spec2Model ----
(***************************************************************************)
(* A model of thinkfan's driver layer (src/src/drivers.cpp): the fan       *)
(* drivers FanDriver / TpFanDriver / HwmonFanDriver and the sensor drivers *)
(* SensorDriver / HwmonSensorDriver / TpSensorDriver.                      *)
(*                                                                         *)
(* Files are sequences of one-character strings, so that the iostream      *)
(* calls of the code (getline into a fixed buffer, operator>> into an int, *)
(* tellg, seekg, rfind, find_last_of, substr) are modelled by what they do *)
(* to the bytes.  Stream offsets are 0-based as in C++; the character at   *)
(* offset p of file f is f[p+1].                                           *)
(***************************************************************************)
EXTENDS Integers, Sequences, FiniteSets, TLC

VARIABLES
    sensor,       \* [driver -> [state, num_temps_, correction_, skip_bytes_]]
    sensor_file,  \* [driver -> content of the file at the driver's path_]
    file_changed, \* [driver -> the file was rewritten since construction]
    temp_state,   \* the temperature aggregate filled by add_temp()
    fan,          \* the fan driver object: [state, initial_state_, watchdog_, ...]
    fan_file,     \* what the fan driver's constructor finds in the file it reads
    now,          \* std::chrono::system_clock::now(), in seconds
    disk,         \* the S.M.A.R.T. driver, its disk and the dnd_disk option
    last          \* what the last call did: its name, outcome and effects

sensorVars == <<sensor, sensor_file, file_changed, temp_state>>
fanVars == <<fan, fan_file, now>>
vars == <<sensor, sensor_file, file_changed, temp_state, fan, fan_file, now,
          disk, last>>

(***************************************************************************)
(* Bounds of the model.                                                    *)
(***************************************************************************)
\* most items (numbers, line ends, junk) after the prefix of a thermal file
MaxBody == 2
\* read_temps() is called only while the aggregate is shorter than this
MaxAgg == 2
\* most lines of a generated fan status file
MaxStatusLines == 2
\* the clock when the fan driver is constructed, and how far it runs on
StartTime == 1000
MaxElapsed == 3

(***************************************************************************)
(* Characters and strings.                                                 *)
(***************************************************************************)
NUL == "NUL"          \* the byte '\0'
npos == -1            \* std::string::npos; npos + 1 = 0 as in size_t arithmetic

Min(a, b) == IF a <= b THEN a ELSE b

IsSpace(c) == c \in {" ", "\t", "\n"}

Digits == {"0", "1", "2", "3", "4", "5", "6", "7", "8", "9"}

DigitVal(c) ==
    CASE c = "0" -> 0 [] c = "1" -> 1 [] c = "2" -> 2 [] c = "3" -> 3
      [] c = "4" -> 4 [] c = "5" -> 5 [] c = "6" -> 6 [] c = "7" -> 7
      [] c = "8" -> 8 [] c = "9" -> 9

\* all sequences over S of length at most n
SeqsUpTo(S, n) == UNION {[1..k -> S] : k \in 0..n}

\* a file that cannot be opened: every stream on it has failbit set at once
NoFile == <<"ENOENT">>

(***************************************************************************)
(* std::istream.  A stream is [pos, eof, fail]; badbit never occurs.       *)
(***************************************************************************)
OpenStream == [pos |-> 0, eof |-> FALSE, fail |-> FALSE]

Good(st) == ~st.eof /\ ~st.fail

\* offset of the first character at or after p that is no whitespace
RECURSIVE SkipWs(_, _)
SkipWs(file, p) ==
    IF p < Len(file) /\ IsSpace(file[p + 1]) THEN SkipWs(file, p + 1) ELSE p

\* number of consecutive digits starting at offset p
RECURSIVE DigitRun(_, _)
DigitRun(file, p) ==
    IF p < Len(file) /\ file[p + 1] \in Digits THEN 1 + DigitRun(file, p + 1) ELSE 0

\* value of the n digits starting at offset p
RECURSIVE DecValue(_, _, _)
DecValue(file, p, n) ==
    IF n = 0 THEN 0
    ELSE 10 * DecValue(file, p, n - 1) + DigitVal(file[p + n])

\* f >> tmp  for an int tmp: sentry, skip whitespace, optional sign, digits.
\* Yields the stream afterwards and, when failbit is not set, the value.
ExtractInt(file, st) ==
    IF ~Good(st)
    THEN [st |-> [st EXCEPT !.fail = TRUE], val |-> 0]
    ELSE LET p == SkipWs(file, st.pos) IN
         IF p >= Len(file)
         THEN [st |-> [pos |-> p, eof |-> TRUE, fail |-> TRUE], val |-> 0]
         ELSE LET signed == file[p + 1] \in {"-", "+"}
                  q == IF signed THEN p + 1 ELSE p
                  n == DigitRun(file, q)
                  v == DecValue(file, q, n)
              IN IF n = 0
                 THEN [st |-> [pos |-> q, eof |-> q >= Len(file), fail |-> TRUE],
                       val |-> 0]
                 ELSE [st |-> [pos |-> q + n, eof |-> q + n >= Len(file),
                               fail |-> FALSE],
                       val |-> IF file[p + 1] = "-" THEN 0 - v ELSE v]

\* number of characters from offset p up to the next '\n' or the end of file
RECURSIVE LineLen(_, _)
LineLen(file, p) ==
    IF p < Len(file) /\ file[p + 1] # "\n" THEN 1 + LineLen(file, p + 1) ELSE 0

\* f.getline(buf, n): stores at most n-1 characters and then a NUL into buf,
\* leaving the rest of buf as it was.  In order: end of file sets eofbit, a
\* '\n' is extracted and not stored, n-1 stored characters set failbit;
\* nothing extracted sets failbit.
GetLine(file, st, buf, n) ==
    IF ~Good(st)
    THEN [st |-> [st EXCEPT !.fail = TRUE],
          buf |-> [i \in 1..Len(buf) |-> IF i = 1 THEN NUL ELSE buf[i]]]
    ELSE LET stored == Min(LineLen(file, st.pos), n - 1)
             e == st.pos + stored
             atEof == e >= Len(file)
             atDelim == ~atEof /\ file[e + 1] = "\n"
         IN [st |-> [pos |-> IF atDelim THEN e + 1 ELSE e,
                     eof |-> atEof,
                     fail |-> (~atEof /\ ~atDelim) \/ (atEof /\ stored = 0)],
             buf |-> [i \in 1..Len(buf) |->
                         IF i <= stored THEN file[st.pos + i]
                         ELSE IF i = stored + 1 THEN NUL ELSE buf[i]]]

\* f.tellg(): the sentry fails on a stream that is not good()
TellG(st) == IF Good(st) THEN st.pos ELSE -1

(***************************************************************************)
(* The files the sensor drivers are run on.                                *)
(***************************************************************************)
skip_prefix_ == <<"t","e","m","p","e","r","a","t","u","r","e","s",":">>

RECURSIVE Flatten(_)
Flatten(ss) == IF ss = <<>> THEN <<>> ELSE Head(ss) \o Flatten(Tail(ss))

\* what may follow the prefix: a number, a line end, a token that is no number
BodyItems == {<<" ", "4">>, <<"\n">>, <<"x">>}

ExampleTpFile == skip_prefix_ \o <<" ","4","5"," ","5","0"," ","0","\n">>
NegativeTpFile == skip_prefix_ \o <<"\t","-","1","2"," ","+","7">>

\* files that begin with the prefix
PrefixedTpFiles ==
    {skip_prefix_ \o Flatten(b) : b \in SeqsUpTo(BodyItems, MaxBody)}
        \cup {ExampleTpFile, NegativeTpFile}

\* files that do not: empty, cut short, one character off, a longer first line
OtherTpFiles ==
    { <<>>,
      <<"t","e","m","p","\n">>,
      <<"t","e","m","p","e","r","a","t","u","r","e","s",";"," ","4","\n">>,
      <<"T","e","m","p","e","r","a","t","u","r","e","s",":"," ","4","\n">> }

TpFiles == PrefixedTpFiles \cup OtherTpFiles \cup {NoFile}

HwmonFiles ==
    { <<"4","3","0","0","0","\n">>, <<"4","3","9","9","9">>,
      <<"-","1","5","0","0","\n">>, <<"-","9","9","9","\n">>,
      <<"2","0","0","0","x">>, <<"x","\n">>, <<>>, NoFile }

SensorDrivers == {"hwmon", "tp"}

FilesOf(d) == IF d = "tp" THEN TpFiles ELSE HwmonFiles

\* correction vectors a configuration may supply for a driver of n channels:
\* one of every length up to n + 1, with entries that differ from each other
\* and, but for the second, from zero
CorrEntry(i) == CASE i = 1 -> 1 [] i = 2 -> 0 [] i = 3 -> -5 [] OTHER -> i
Corrections(n) == {[i \in 1..k |-> CorrEntry(i)] : k \in 0..(n + 1)}
ExampleCorrection == <<1, 0, -5>>
\* for the one channel of the sysfs-hwmon driver, also the offset 2
HwmonCorrections == Corrections(1) \cup {<<2>>}

\* what a read of correction_ beyond its end may yield: the vector's old
\* zero or whatever else lies behind it on the heap
UBInts == {0, 77}

(***************************************************************************)
(* The record of the last call.                                            *)
(***************************************************************************)
Call(op) ==
    [op |-> op, result |-> "ok", code |-> "none", writes |-> <<>>,
     pre |-> <<>>, raw |-> <<>>, oob |-> FALSE, evals |-> {}, arg |-> <<>>]

\* the calling thread is stuck in a call that never returns
Hung == last.result = "spin"

(***************************************************************************)
(* SensorDriver                                                            *)
(***************************************************************************)
NoSensor == [state |-> "none", num_temps_ |-> 0, correction_ |-> <<>>,
             skip_bytes_ |-> 0]

\* std::vector::resize(n, 0)
Resize(v, n) == [i \in 1..n |-> IF i <= Len(v) THEN v[i] ELSE 0]

set_num_temps(s, n) ==
    [s EXCEPT !.num_temps_ = n, !.correction_ = Resize(s.correction_, n)]

num_temps(d) == sensor[d].num_temps_

\* temp_state.add_temp(t), for each t of ts in turn
add_temps(ts) == temp_state' = temp_state \o ts

\* set_correction without its length check
set_correction_unchecked(d, correction) ==
    /\ ~Hung
    /\ UNCHANGED <<fanVars, disk>>
    /\ sensor[d].state = "ready"
    /\ sensor' = [sensor EXCEPT ![d].correction_ = correction]
    /\ last' = [Call("set_correction") EXCEPT
                    !.pre = temp_state, !.arg = correction]
    /\ UNCHANGED <<sensor_file, file_changed, temp_state>>

set_correction(d, correction) ==
    /\ ~Hung
    /\ UNCHANGED <<fanVars, disk>>
    /\ sensor[d].state = "ready"
    /\ IF Len(correction) > num_temps(d)
       THEN /\ last' = [Call("set_correction") EXCEPT
                            !.result = "ConfigError", !.pre = temp_state,
                            !.arg = correction]
            /\ UNCHANGED sensor
       ELSE /\ sensor' = [sensor EXCEPT ![d].correction_ = correction]
            /\ last' = [Call("set_correction") EXCEPT
                            !.pre = temp_state, !.arg = correction]
    /\ UNCHANGED <<sensor_file, file_changed, temp_state>>

\* correction_[tidx]; g supplies what a read beyond the end yields
CorrectionAt(correction_, tidx, g) ==
    IF tidx < Len(correction_) THEN correction_[tidx + 1] ELSE g[tidx]

\* a call opens the file at path_ and finds content f there, which the kernel
\* may have rewritten since the call before
Opens(d, f) ==
    /\ f \in FilesOf(d)
    /\ sensor_file' = [sensor_file EXCEPT ![d] = f]
    /\ file_changed' = [file_changed EXCEPT ![d] = @ \/ f # sensor_file[d]]

(***************************************************************************)
(* HwmonSensorDriver                                                       *)
(***************************************************************************)
\* a division that rounds toward minus infinity
CDiv_floor(a, b) == a \div b

\* int division of C++: the quotient is truncated toward zero
CDiv(a, b) == IF a >= 0 THEN a \div b ELSE 0 - ((0 - a) \div b)

HwmonSensorDriver_ctor ==
    /\ ~Hung
    /\ UNCHANGED <<fanVars, disk>>
    /\ sensor["hwmon"].state = "none"
    /\ IF sensor_file["hwmon"] = NoFile
       THEN /\ sensor' = [sensor EXCEPT !["hwmon"].state = "failed"]
            /\ last' = [Call("HwmonSensorDriver") EXCEPT
                            !.result = "IOerror", !.pre = temp_state]
       ELSE /\ sensor' = [sensor EXCEPT !["hwmon"] =
                            set_num_temps([NoSensor EXCEPT !.state = "ready"], 1)]
            /\ last' = [Call("HwmonSensorDriver") EXCEPT !.pre = temp_state]
    /\ UNCHANGED <<sensor_file, file_changed, temp_state>>

HwmonSensorDriver_read_temps(file) ==
    /\ ~Hung
    /\ UNCHANGED <<fanVars, disk>>
    /\ sensor["hwmon"].state = "ready"
    /\ Len(temp_state) < MaxAgg
    /\ Opens("hwmon", file)
    /\ LET r == ExtractInt(file, OpenStream)
           correction_ == sensor["hwmon"].correction_
       IN IF file = NoFile \/ r.st.fail
          THEN /\ last' = [Call("hwmon.read_temps") EXCEPT
                               !.result = "IOerror", !.pre = temp_state]
               /\ UNCHANGED temp_state
          ELSE \E g \in [Len(correction_)..0 -> UBInts] :
                 /\ add_temps(<<CDiv(r.val, 1000) + CorrectionAt(correction_, 0, g)>>)
                 /\ last' = [Call("hwmon.read_temps") EXCEPT
                                 !.pre = temp_state, !.raw = <<CDiv(r.val, 1000)>>,
                                 !.oob = Len(correction_) < 1]
    /\ UNCHANGED sensor

(***************************************************************************)
(* TpSensorDriver                                                          *)
(***************************************************************************)
\* the counting loop with ++count outside the if (!f.fail())
RECURSIVE CountLoop_countsFailed(_, _, _)
CountLoop_countsFailed(file, st, count) ==
    IF st.eof \/ st.fail THEN count
    ELSE CountLoop_countsFailed(file, ExtractInt(file, st).st, count + 1)

\* the counting loop of the constructor: while (!(f.eof() || f.fail()))
RECURSIVE CountLoop(_, _, _)
CountLoop(file, st, count) ==
    IF st.eof \/ st.fail THEN count
    ELSE LET r == ExtractInt(file, st)
         IN CountLoop(file, r.st, IF ~r.st.fail THEN count + 1 ELSE count)

\* the prefix check comparing all but the last character of the prefix
ReadPrefix_noColon(file) ==
    LET skip == [i \in 1..Len(skip_prefix_) |-> NUL]
        r == GetLine(file, OpenStream, skip, Len(skip_prefix_) + 1)
        st == [r.st EXCEPT !.fail = FALSE]
        n == Len(skip_prefix_) - 1
    IN [match |-> SubSeq(r.buf, 1, n) = SubSeq(skip_prefix_, 1, n),
        skip_bytes_ |-> TellG(st),
        st |-> [st EXCEPT !.fail = ~Good(st)]]

\* the prefix check of the constructor: getline into skip, clear failbit,
\* compare, tellg.  Yields whether skip == skip_prefix_ and the stream after.
ReadPrefix(file) ==
    LET skip == [i \in 1..Len(skip_prefix_) |-> NUL]
        r == GetLine(file, OpenStream, skip, Len(skip_prefix_) + 1)
        st == [r.st EXCEPT !.fail = FALSE]
    IN [match |-> r.buf = skip_prefix_,
        skip_bytes_ |-> TellG(st),
        st |-> [st EXCEPT !.fail = ~Good(st)]]

TpSensorDriver_ctor ==
    /\ ~Hung
    /\ UNCHANGED <<fanVars, disk>>
    /\ sensor["tp"].state = "none"
    /\ LET file == sensor_file["tp"]
           p == ReadPrefix(file)
       IN IF file = NoFile
          THEN /\ sensor' = [sensor EXCEPT !["tp"].state = "failed"]
               /\ last' = [Call("TpSensorDriver") EXCEPT
                               !.result = "IOerror", !.pre = temp_state]
          ELSE IF ~p.match
          THEN /\ sensor' = [sensor EXCEPT !["tp"].state = "failed"]
               /\ last' = [Call("TpSensorDriver") EXCEPT
                               !.result = "SystemError", !.pre = temp_state]
          ELSE /\ sensor' = [sensor EXCEPT !["tp"] =
                    set_num_temps([NoSensor EXCEPT !.state = "ready",
                                                   !.skip_bytes_ = p.skip_bytes_],
                                  CountLoop(file, p.st, 0))]
               /\ last' = [Call("TpSensorDriver") EXCEPT !.pre = temp_state]
    /\ UNCHANGED <<sensor_file, file_changed, temp_state>>

\* the loop of read_temps: while (!f.eof()) { f >> tmp; if (!f.fail()) ... }.
\* Once failbit is set without eofbit every further f >> tmp fails in its
\* sentry and changes nothing, so the loop never ends.
RECURSIVE ReadLoop(_, _, _)
ReadLoop(file, st, raw) ==
    IF st.eof THEN [raw |-> raw, spins |-> FALSE]
    ELSE IF st.fail THEN [raw |-> raw, spins |-> TRUE]
    ELSE LET r == ExtractInt(file, st)
         IN ReadLoop(file, r.st, IF ~r.st.fail THEN Append(raw, r.val) ELSE raw)

TpSensorDriver_read_temps(file) ==
    /\ ~Hung
    /\ UNCHANGED <<fanVars, disk>>
    /\ sensor["tp"].state = "ready"
    /\ Len(temp_state) < MaxAgg
    /\ Opens("tp", file)
    /\ LET correction_ == sensor["tp"].correction_
           skip_bytes_ == sensor["tp"].skip_bytes_
           r == ReadLoop(file, [OpenStream EXCEPT !.pos = skip_bytes_], <<>>)
           k == Len(r.raw)
       IN IF file = NoFile \/ skip_bytes_ < 0
          THEN /\ last' = [Call("tp.read_temps") EXCEPT
                               !.result = "IOerror", !.pre = temp_state]
               /\ UNCHANGED temp_state
          ELSE \E g \in [Len(correction_)..(k - 1) -> UBInts] :
                 /\ add_temps([i \in 1..k |->
                        r.raw[i] + CorrectionAt(correction_, i - 1, g)])
                 /\ last' = [Call("tp.read_temps") EXCEPT
                                 !.result = IF r.spins THEN "spin" ELSE "ok",
                                 !.pre = temp_state, !.raw = r.raw,
                                 !.oob = k > Len(correction_)]
    /\ UNCHANGED sensor

(***************************************************************************)
(* std::string operations used on the line buffers.                        *)
(***************************************************************************)
Max(S) == CHOOSE x \in S : \A y \in S : y <= x

\* s.rfind(t): the last offset at which t occurs in s, or npos
rfind(s, t) ==
    LET P == {q \in 0..(Len(s) - Len(t)) : \A i \in 1..Len(t) : s[q + i] = t[i]}
    IN IF P = {} THEN npos ELSE Max(P)

\* s.find_last_of(cs): the last offset of a character of cs in s, or npos
find_last_of(s, cs) ==
    LET P == {q \in 0..(Len(s) - 1) : s[q + 1] \in cs}
    IN IF P = {} THEN npos ELSE Max(P)

\* s.substr(pos)
substr(s, pos) == SubSeq(s, pos + 1, Len(s))

\* std::to_string(n) for n >= 0
DigitChar(n) ==
    CASE n = 0 -> "0" [] n = 1 -> "1" [] n = 2 -> "2" [] n = 3 -> "3"
      [] n = 4 -> "4" [] n = 5 -> "5" [] n = 6 -> "6" [] n = 7 -> "7"
      [] n = 8 -> "8" [] n = 9 -> "9"

RECURSIVE to_string(_)
to_string(n) ==
    IF n < 10 THEN <<DigitChar(n)>>
    ELSE Append(to_string(n \div 10), DigitChar(n % 10))

\* the characters of a C string: up to the first NUL
RECURSIVE CStr(_)
CStr(s) ==
    IF s = <<>> \/ Head(s) = NUL THEN <<>> ELSE <<Head(s)>> \o CStr(Tail(s))

(***************************************************************************)
(* FanDriver                                                               *)
(***************************************************************************)
NoFan == [state |-> "none", initial_state_ |-> <<>>, watchdog_ |-> 0,
          depulse_ |-> 0, last_watchdog_ping_ |-> 0]

\* how a write to a file of the kernel may end: well, or with errno set
Errnos == {"EPERM", "EACCES", "EINVAL"}
Outcomes == {"ok"} \cup Errnos

\* the fan speed requests of the caller: Level::str() and Level::num()
Level(n) == [str |-> <<"l","e","v","e","l"," ">> \o to_string(n), num |-> n]
Levels == {Level(1), Level(127)}

Write(path, data, outcome) == [path |-> path, data |-> data, result |-> outcome]

\* one call's effect: the writes it issued and how it ended
Done(writes) == [writes |-> writes, result |-> "ok", code |-> "none"]
Thrown(writes, error, code) == [writes |-> writes, result |-> error, code |-> code]

\* FanDriver::set_speed with EACCES classified like EPERM
FanDriver_set_speed_eacces(path_, level, outcome) ==
    LET w == <<Write(path_, level, outcome)>>
    IN IF outcome = "ok" THEN Done(w)
       ELSE IF outcome \in {"EPERM", "EACCES"} THEN Thrown(w, "SystemError", "none")
       ELSE Thrown(w, "IOerror", outcome)

\* FanDriver::set_speed(const string &level): one write to path_
FanDriver_set_speed(path_, level, outcome) ==
    LET w == <<Write(path_, level, outcome)>>
    IN IF outcome = "ok" THEN Done(w)
       ELSE IF outcome = "EPERM" THEN Thrown(w, "SystemError", "none")
       ELSE Thrown(w, "IOerror", outcome)

\* a call that only writes data to path and throws IOerror when that fails
WriteOrIOerror(path, data, outcome) ==
    LET w == <<Write(path, data, outcome)>>
    IN IF outcome = "ok" THEN Done(w) ELSE Thrown(w, "IOerror", outcome)

FanCall(op, e) ==
    [Call(op) EXCEPT !.result = e.result, !.code = e.code, !.writes = e.writes]

(***************************************************************************)
(* HwmonFanDriver                                                          *)
(***************************************************************************)
\* line.resize(64) and f.getline(&*line.begin(), 63)
EnableBufSize == 64
EnableGetlineCount == 63

\* what pwm*_enable may hold when the driver is constructed
EnableFiles ==
    { <<"1","\n">>, <<"2","\n">>, <<"0">>, <<"2","\n","1","\n">>, <<>>,
      [i \in 1..EnableGetlineCount |-> "1"], NoFile }

HwmonFanDriver_ctor ==
    /\ fan.state = "none"
    /\ LET line == [i \in 1..EnableBufSize |-> NUL]
           r == GetLine(fan_file, OpenStream, line, EnableGetlineCount)
       IN IF fan_file = NoFile \/ r.st.fail
          THEN /\ fan' = [fan EXCEPT !.state = "failed"]
               /\ last' = [Call("HwmonFanDriver") EXCEPT !.result = "IOerror"]
          ELSE /\ fan' = [NoFan EXCEPT !.state = "ready", !.initial_state_ = r.buf]
               /\ last' = Call("HwmonFanDriver")
    /\ UNCHANGED <<fan_file, now>>
    /\ UNCHANGED <<sensorVars, disk>>

\* HwmonFanDriver::init(): writes "1" to path_ + "_enable"
HwmonInit(outcome) == WriteOrIOerror("enable", <<"1">>, outcome)

HwmonFanDriver_init ==
    /\ fan.state = "ready"
    /\ \E o \in Outcomes : last' = FanCall("hwmon.init", HwmonInit(o))
    /\ UNCHANGED <<fanVars, disk>>
    /\ UNCHANGED <<sensorVars, disk>>

\* set_speed that calls itself again after init() instead of the base write
HwmonSetSpeed_retryAgain(level, o1, o2, o3) ==
    LET text == to_string(level.num)
        first == FanDriver_set_speed("pwm", text, o1)
        again == FanDriver_set_speed("pwm", text, o3)
    IN IF first.result = "IOerror" /\ first.code = "EINVAL"
       THEN IF HwmonInit(o2).result # "ok"
            THEN Thrown(first.writes \o HwmonInit(o2).writes, "IOerror", o2)
            ELSE IF again.result = "IOerror" /\ again.code = "EINVAL"
            THEN [again EXCEPT !.writes = first.writes \o HwmonInit(o2).writes
                     \o again.writes \o HwmonInit(o2).writes \o again.writes]
            ELSE [again EXCEPT !.writes =
                     first.writes \o HwmonInit(o2).writes \o again.writes]
       ELSE first

\* the body of HwmonFanDriver::set_speed: o1 ends the first write, o2 the
\* write of init() and o3 the second write, where the call gets that far
HwmonSetSpeed(level, o1, o2, o3) ==
    LET text == to_string(level.num)
        first == FanDriver_set_speed("pwm", text, o1)
        again == FanDriver_set_speed("pwm", text, o3)
    IN IF first.result = "IOerror" /\ first.code = "EINVAL"
       THEN IF HwmonInit(o2).result # "ok"
            THEN Thrown(first.writes \o HwmonInit(o2).writes, "IOerror", o2)
            ELSE [again EXCEPT !.writes =
                     first.writes \o HwmonInit(o2).writes \o again.writes]
       ELSE first

HwmonFanDriver_set_speed(level) ==
    /\ fan.state = "ready"
    /\ \E o1, o2, o3 \in Outcomes :
          last' = [FanCall("hwmon.set_speed", HwmonSetSpeed(level, o1, o2, o3))
                      EXCEPT !.arg = level]
    /\ UNCHANGED <<fanVars, disk>>
    /\ UNCHANGED <<sensorVars, disk>>

\* a destructor that puts the channel back to automatic mode, whatever it was
HwmonFanDriver_dtor_auto ==
    /\ fan.state = "ready"
    /\ \E o \in Outcomes :
          last' = FanCall("~HwmonFanDriver", WriteOrIOerror("enable", <<"2">>, o))
    /\ fan' = [fan EXCEPT !.state = "destroyed"]
    /\ UNCHANGED <<fan_file, now>>
    /\ UNCHANGED <<sensorVars, disk>>

HwmonFanDriver_dtor ==
    /\ fan.state = "ready"
    /\ \E o \in Outcomes :
          last' = FanCall("~HwmonFanDriver",
                          WriteOrIOerror("enable", fan.initial_state_, o))
    /\ fan' = [fan EXCEPT !.state = "destroyed"]
    /\ UNCHANGED <<fan_file, now>>
    /\ UNCHANGED <<sensorVars, disk>>

(***************************************************************************)
(* TpFanDriver                                                             *)
(***************************************************************************)
\* line.resize(256) and f.getline(&*line.begin(), 255)
LineBufSize == 256
LineGetlineCount == 255
\* FanDriver(path, 120)
DefaultWatchdog == 120
\* the polling period of the daemon, in seconds
sleeptime == 1

Str_level == <<"l","e","v","e","l",":">>
Str_commands == <<"c","o","m","m","a","n","d","s",":">>
Str_level_level == <<"l","e","v","e","l"," ","<","l","e","v","e","l",">">>
Str_level_disengaged ==
    <<"l","e","v","e","l"," ","d","i","s","e","n","g","a","g","e","d">>

\* lines of /proc/acpi/ibm/fan, and one line that is no "commands:" line
\* and still holds the token "level <level>"
Line_level == <<"l","e","v","e","l",":","\t","\t","a","u","t","o">>
Line_commands_level ==
    <<"c","o","m","m","a","n","d","s",":","\t","l","e","v","e","l"," ","<",
      "l","e","v","e","l",">"," ","(","<","l","e","v","e","l",">"," ","i","s",
      " ","0","-","7",","," ","a","u","t","o",","," ","d","i","s","e","n","g",
      "a","g","e","d",","," ","f","u","l","l","-","s","p","e","e","d",")">>
Line_commands_enable ==
    <<"c","o","m","m","a","n","d","s",":","\t","e","n","a","b","l","e">>
Line_hint ==
    <<"h","i","n","t",":"," ","w","r","i","t","e"," ","e",".","g","."," ",
      "l","e","v","e","l"," ","<","l","e","v","e","l",">">>
Line_status ==
    <<"s","t","a","t","u","s",":","\t","\t","e","n","a","b","l","e","d">>

StatusLines == {Line_level, Line_commands_level, Line_commands_enable, Line_hint}

\* the lines, each ended by '\n'
RECURSIVE Text(_)
Text(lines) ==
    IF lines = <<>> THEN <<>> ELSE Head(lines) \o <<"\n">> \o Text(Tail(lines))

\* the status text of a kernel with fan control enabled
ExampleStatus == Text(<<Line_status, Line_level, Line_commands_level,
                        Line_commands_enable>>)

StatusFiles ==
    {Text(ls) : ls \in SeqsUpTo(StatusLines, MaxStatusLines)}
        \cup {ExampleStatus, NoFile}

\* the getline loop of the constructor.  line is the one buffer every
\* getline writes into: what a shorter line does not overwrite stays in it,
\* and rfind, find_last_of and substr work on all LineBufSize characters.
RECURSIVE StatusLoop(_, _, _, _, _)
StatusLoop(file, st, line, initial_state_, ctrl_supported) ==
    LET r == GetLine(file, st, line, LineGetlineCount)
    IN IF r.st.fail
       THEN [initial_state_ |-> initial_state_, ctrl_supported |-> ctrl_supported]
       ELSE IF rfind(r.buf, Str_level) # npos
       THEN StatusLoop(file, r.st, r.buf,
                substr(r.buf, find_last_of(r.buf, {" ", "\t"}) + 1),
                ctrl_supported)
       ELSE IF rfind(r.buf, Str_commands) # npos
                /\ rfind(r.buf, Str_level_level) # npos
       THEN StatusLoop(file, r.st, r.buf, initial_state_, TRUE)
       ELSE StatusLoop(file, r.st, r.buf, initial_state_, ctrl_supported)

TpFanDriver_ctor ==
    /\ fan.state = "none"
    /\ LET line == [i \in 1..LineBufSize |-> NUL]
           r == StatusLoop(fan_file, OpenStream, line, <<>>, FALSE)
       IN IF fan_file = NoFile
          THEN /\ fan' = [fan EXCEPT !.state = "failed"]
               /\ last' = [Call("TpFanDriver") EXCEPT !.result = "IOerror"]
          ELSE IF ~r.ctrl_supported
          THEN /\ fan' = [fan EXCEPT !.state = "failed"]
               /\ last' = [Call("TpFanDriver") EXCEPT !.result = "SystemError"]
          ELSE /\ fan' = [NoFan EXCEPT !.state = "ready",
                                       !.initial_state_ = r.initial_state_,
                                       !.watchdog_ = DefaultWatchdog]
               /\ last' = Call("TpFanDriver")
    /\ UNCHANGED <<fan_file, now>>
    /\ UNCHANGED <<sensorVars, disk>>

\* the timeouts and pauses a configuration may set
WatchdogTimeouts == {0, 2}
DepulseDurations == {0, 1}

MaxTime == StartTime + MaxElapsed

TpFanDriver_set_watchdog(timeout) ==
    /\ fan.state = "ready"
    /\ fan' = [fan EXCEPT !.watchdog_ = timeout]
    /\ last' = Call("set_watchdog")
    /\ UNCHANGED <<fan_file, now>>
    /\ UNCHANGED <<sensorVars, disk>>

TpFanDriver_set_depulse(duration) ==
    /\ fan.state = "ready"
    /\ fan' = [fan EXCEPT !.depulse_ = duration]
    /\ last' = Call("set_depulse")
    /\ UNCHANGED <<fan_file, now>>
    /\ UNCHANGED <<sensorVars, disk>>

\* set_speed that records the time before it knows the write succeeded
TpSetSpeed_alwaysRecords(f, level, t, outcome) ==
    [e |-> FanDriver_set_speed("ctrl", level.str, outcome),
     fan |-> [f EXCEPT !.last_watchdog_ping_ = t]]

\* the body of TpFanDriver::set_speed(level) called at time t: the effect of
\* the write and the fan object afterwards
TpSetSpeed(f, level, t, outcome) ==
    LET e == FanDriver_set_speed("ctrl", level.str, outcome)
    IN [e |-> e,
        fan |-> IF e.result = "ok" THEN [f EXCEPT !.last_watchdog_ping_ = t] ELSE f]

TpFanDriver_set_speed(level) ==
    /\ fan.state = "ready"
    /\ \E o \in Outcomes :
          LET r == TpSetSpeed(fan, level, now, o)
          IN /\ fan' = r.fan
             /\ last' = [FanCall("tp.set_speed", r.e) EXCEPT !.arg = level]
    /\ UNCHANGED <<fan_file, now>>
    /\ UNCHANGED <<sensorVars, disk>>

\* ping_watchdog_and_depulse with "if" where the code has "else if": the
\* watchdog deadline is evaluated after the depulse path as well
TpPing_noElse(f, level, t, o1, o2) ==
    LET dis == FanDriver_set_speed("ctrl", Str_level_disengaged, o1)
        due == f.last_watchdog_ping_ + f.watchdog_ + sleeptime >= t
        slow == TpSetSpeed(f, level, t + f.depulse_, o2)
        ping == TpSetSpeed(f, level, t, o1)
        both == TpSetSpeed(slow.fan, level, t + f.depulse_, o2)
    IN IF f.depulse_ > 0
       THEN IF dis.result # "ok"
            THEN [e |-> dis, fan |-> f, now |-> t, evals |-> {"depulse"}]
            ELSE IF slow.e.result # "ok"
            THEN [e |-> [slow.e EXCEPT !.writes = dis.writes \o slow.e.writes],
                  fan |-> slow.fan, now |-> t + f.depulse_, evals |-> {"depulse"}]
            ELSE [e |-> [both.e EXCEPT !.writes =
                            dis.writes \o slow.e.writes \o both.e.writes],
                  fan |-> both.fan, now |-> t + f.depulse_,
                  evals |-> {"depulse", "deadline"}]
       ELSE IF due
       THEN [e |-> ping.e, fan |-> ping.fan, now |-> t,
             evals |-> {"depulse", "deadline"}]
       ELSE [e |-> Done(<<>>), fan |-> f, now |-> t,
             evals |-> {"depulse", "deadline"}]

\* ping_watchdog_and_depulse with ">" where the code has ">="
TpPing_strictDeadline(f, level, t, o1, o2) ==
    LET dis == FanDriver_set_speed("ctrl", Str_level_disengaged, o1)
        due == f.last_watchdog_ping_ + f.watchdog_ + sleeptime > t
        slow == TpSetSpeed(f, level, t + f.depulse_, o2)
        ping == TpSetSpeed(f, level, t, o1)
    IN IF f.depulse_ > 0
       THEN IF dis.result # "ok"
            THEN [e |-> dis, fan |-> f, now |-> t, evals |-> {"depulse"}]
            ELSE [e |-> [slow.e EXCEPT !.writes = dis.writes \o slow.e.writes],
                  fan |-> slow.fan, now |-> t + f.depulse_, evals |-> {"depulse"}]
       ELSE IF due
       THEN [e |-> ping.e, fan |-> ping.fan, now |-> t,
             evals |-> {"depulse", "deadline"}]
       ELSE [e |-> Done(<<>>), fan |-> f, now |-> t,
             evals |-> {"depulse", "deadline"}]

\* ping_watchdog_and_depulse that catches the failure of the "level
\* disengaged" write and goes on
TpPing_swallowsDisengage(f, level, t, o1, o2) ==
    LET dis == FanDriver_set_speed("ctrl", Str_level_disengaged, o1)
        due == f.last_watchdog_ping_ + f.watchdog_ + sleeptime >= t
        slow == TpSetSpeed(f, level, t + f.depulse_, o2)
        ping == TpSetSpeed(f, level, t, o1)
    IN IF f.depulse_ > 0
       THEN [e |-> [slow.e EXCEPT !.writes = dis.writes \o slow.e.writes],
             fan |-> slow.fan, now |-> t + f.depulse_, evals |-> {"depulse"}]
       ELSE IF due
       THEN [e |-> ping.e, fan |-> ping.fan, now |-> t,
             evals |-> {"depulse", "deadline"}]
       ELSE [e |-> Done(<<>>), fan |-> f, now |-> t,
             evals |-> {"depulse", "deadline"}]

\* the body of ping_watchdog_and_depulse(level) called at time t: o1 ends
\* the first write and o2 the second, where the call gets that far.  evals
\* names the conditions the call evaluated, now the time when it returns.
TpPing(f, level, t, o1, o2) ==
    LET dis == FanDriver_set_speed("ctrl", Str_level_disengaged, o1)
        due == f.last_watchdog_ping_ + f.watchdog_ + sleeptime >= t
        slow == TpSetSpeed(f, level, t + f.depulse_, o2)
        ping == TpSetSpeed(f, level, t, o1)
    IN IF f.depulse_ > 0
       THEN IF dis.result # "ok"
            THEN [e |-> dis, fan |-> f, now |-> t, evals |-> {"depulse"}]
            ELSE [e |-> [slow.e EXCEPT !.writes = dis.writes \o slow.e.writes],
                  fan |-> slow.fan, now |-> t + f.depulse_, evals |-> {"depulse"}]
       ELSE IF due
       THEN [e |-> ping.e, fan |-> ping.fan, now |-> t,
             evals |-> {"depulse", "deadline"}]
       ELSE [e |-> Done(<<>>), fan |-> f, now |-> t,
             evals |-> {"depulse", "deadline"}]

TpFanDriver_ping_watchdog_and_depulse(level) ==
    /\ fan.state = "ready"
    /\ now + fan.depulse_ <= MaxTime
    /\ \E o1, o2 \in Outcomes :
          LET r == TpPing(fan, level, now, o1, o2)
          IN /\ fan' = r.fan
             /\ now' = r.now
             /\ last' = [FanCall("tp.ping", r.e) EXCEPT
                            !.arg = level, !.evals = r.evals]
    /\ UNCHANGED fan_file
    /\ UNCHANGED <<sensorVars, disk>>

\* TpFanDriver::init(): writes "watchdog " and the timeout to path_
TpFanDriver_init ==
    /\ fan.state = "ready"
    /\ \E o \in Outcomes :
          last' = FanCall("tp.init",
                     WriteOrIOerror("ctrl",
                         <<"w","a","t","c","h","d","o","g"," ">>
                             \o to_string(fan.watchdog_), o))
    /\ UNCHANGED <<fanVars, disk>>
    /\ UNCHANGED <<sensorVars, disk>>

TpFanDriver_dtor ==
    /\ fan.state = "ready"
    /\ \E o \in Outcomes :
          last' = FanCall("~TpFanDriver",
                     WriteOrIOerror("ctrl",
                         <<"l","e","v","e","l"," ">> \o fan.initial_state_, o))
    /\ fan' = [fan EXCEPT !.state = "destroyed"]
    /\ UNCHANGED <<fan_file, now>>
    /\ UNCHANGED <<sensorVars, disk>>

\* time passes between two calls
Tick ==
    /\ fan.state = "ready"
    /\ now < MaxTime
    /\ now' = now + 1
    /\ UNCHANGED <<fan, fan_file, last>>
    /\ UNCHANGED <<sensorVars, disk>>

(***************************************************************************)
(* AtasmartSensorDriver.  The disk is [state, num_temps_, correction_,     *)
(* dnd_disk, sleeping]: the driver object, the option dnd_disk of the      *)
(* daemon and whether the disk is in power-saving sleep.  The calls of     *)
(* libatasmart a read issues are recorded in last.evals.                   *)
(***************************************************************************)
NoDisk == [state |-> "none", num_temps_ |-> 0, correction_ |-> <<>>,
           dnd_disk |-> FALSE, sleeping |-> FALSE]

\* how a call of libatasmart may end: 0 or a negative value
SkResults == {"ok", "fail"}

\* what sk_disk_smart_get_temperature may store into mKelvin
MilliKelvins == {313650, 300650, 263650}

\* tmp = mKelvin / 1000.0f; tmp -= 273.15f; add_temp(tmp) converts to int,
\* which truncates toward zero.  The rounding of float is not modelled: the
\* readings of MilliKelvins lie half a degree away from a whole one.
ToCelsius(mKelvin) == CDiv(mKelvin - 273150, 1000)

\* opened: the std::ifstream of SensorDriver opens device_path; skOpen: what
\* sk_disk_open returns
AtasmartSensorDriver_ctor ==
    /\ disk.state = "none"
    /\ \E opened \in BOOLEAN, skOpen \in SkResults :
          IF ~opened
          THEN /\ disk' = [disk EXCEPT !.state = "failed"]
               /\ last' = [Call("AtasmartSensorDriver") EXCEPT
                               !.result = "IOerror", !.pre = temp_state]
          ELSE IF skOpen = "fail"
          THEN /\ disk' = [disk EXCEPT !.state = "failed"]
               /\ last' = [Call("AtasmartSensorDriver") EXCEPT
                               !.result = "SystemError", !.pre = temp_state]
          ELSE /\ disk' = set_num_temps([disk EXCEPT !.state = "ready"], 1)
               /\ last' = [Call("AtasmartSensorDriver") EXCEPT !.pre = temp_state]
    /\ UNCHANGED <<sensorVars, fanVars>>

\* the body of read_temps() on disk d: check, data and temp are what the
\* three calls of libatasmart return, mKelvin what the last stores, and
\* caught whether the test "unlikely(...) < 0" of the temperature query sees
\* its negative result (it does only if unlikely(x) has the value of x).
\* Yields the outcome, the values appended, the calls issued and whether
\* the disk sleeps afterwards: a S.M.A.R.T. read wakes it.
AtasmartRead(d, check, data, temp, caught, mKelvin) ==
    LET disk_sleeping == d.dnd_disk /\ d.sleeping
    IN IF d.dnd_disk /\ check = "fail"
       THEN [result |-> "SystemError", added |-> <<>>,
             evals |-> {"check_sleep_mode"}, sleeping |-> d.sleeping]
       ELSE IF disk_sleeping
       THEN [result |-> "ok", added |-> <<0>>,
             evals |-> {"check_sleep_mode"}, sleeping |-> d.sleeping]
       ELSE LET checked == IF d.dnd_disk THEN {"check_sleep_mode"} ELSE {}
            IN IF data = "fail"
               THEN [result |-> "SystemError", added |-> <<>>,
                     evals |-> checked \cup {"smart_read_data"},
                     sleeping |-> FALSE]
               ELSE IF temp = "fail" /\ caught
               THEN [result |-> "SystemError", added |-> <<>>,
                     evals |-> checked \cup {"smart_read_data",
                                             "smart_get_temperature"},
                     sleeping |-> FALSE]
               ELSE [result |-> "ok", added |-> <<ToCelsius(mKelvin)>>,
                     evals |-> checked \cup {"smart_read_data",
                                             "smart_get_temperature"},
                     sleeping |-> FALSE]

AtasmartSensorDriver_read_temps ==
    /\ disk.state = "ready"
    /\ Len(temp_state) < MaxAgg
    /\ \E check, data, temp \in SkResults, caught \in BOOLEAN,
          mKelvin \in MilliKelvins :
          LET r == AtasmartRead(disk, check, data, temp, caught, mKelvin)
          IN /\ add_temps(r.added)
             /\ disk' = [disk EXCEPT !.sleeping = r.sleeping]
             /\ last' = [Call("atasmart.read_temps") EXCEPT
                            !.result = r.result, !.pre = temp_state,
                            !.raw = r.added, !.evals = r.evals]
    /\ UNCHANGED <<sensor, sensor_file, file_changed, fanVars>>

\* the disk spins down after its idle time
DiskSleeps ==
    /\ disk.state = "ready" /\ ~disk.sleeping
    /\ disk' = [disk EXCEPT !.sleeping = TRUE]
    /\ UNCHANGED <<sensorVars, fanVars, last>>

\* another process reads the disk
DiskWakes ==
    /\ disk.state = "ready" /\ disk.sleeping
    /\ disk' = [disk EXCEPT !.sleeping = FALSE]
    /\ UNCHANGED <<sensorVars, fanVars, last>>

(***************************************************************************)
(* Specifications: one per driver, each on its own file.                   *)
(***************************************************************************)
InitSensors(d) ==
    /\ fan = NoFan /\ fan_file = NoFile /\ now = StartTime
    /\ disk = NoDisk
    /\ sensor = [x \in SensorDrivers |-> NoSensor]
    /\ \E f \in FilesOf(d) :
          sensor_file = [x \in SensorDrivers |-> IF x = d THEN f ELSE NoFile]
    /\ file_changed = [x \in SensorDrivers |-> FALSE]
    /\ temp_state = <<>>
    /\ last = Call("none")

InitTpSensor == InitSensors("tp")

NextTpSensor ==
    \/ TpSensorDriver_ctor
    \/ \E c \in Corrections(num_temps("tp")) : set_correction("tp", c)
    \/ \E f \in TpFiles : TpSensorDriver_read_temps(f)

SpecTpSensor == InitTpSensor /\ [][NextTpSensor]_vars

InitHwmonSensor == InitSensors("hwmon")

NextHwmonSensor ==
    \/ HwmonSensorDriver_ctor
    \/ \E c \in HwmonCorrections : set_correction("hwmon", c)
    \/ \E f \in HwmonFiles : HwmonSensorDriver_read_temps(f)

SpecHwmonSensor == InitHwmonSensor /\ [][NextHwmonSensor]_vars

InitAtasmart ==
    /\ sensor = [x \in SensorDrivers |-> NoSensor]
    /\ sensor_file = [x \in SensorDrivers |-> NoFile]
    /\ file_changed = [x \in SensorDrivers |-> FALSE]
    /\ temp_state = <<>>
    /\ fan = NoFan /\ fan_file = NoFile /\ now = StartTime
    /\ \E dnd \in BOOLEAN, asleep \in BOOLEAN :
          disk = [NoDisk EXCEPT !.dnd_disk = dnd, !.sleeping = asleep]
    /\ last = Call("none")

NextAtasmart ==
    \/ AtasmartSensorDriver_ctor
    \/ AtasmartSensorDriver_read_temps
    \/ DiskSleeps
    \/ DiskWakes

SpecAtasmart == InitAtasmart /\ [][NextAtasmart]_vars

InitFan(files) ==
    /\ sensor = [x \in SensorDrivers |-> NoSensor]
    /\ sensor_file = [x \in SensorDrivers |-> NoFile]
    /\ file_changed = [x \in SensorDrivers |-> FALSE]
    /\ temp_state = <<>>
    /\ fan = NoFan
    /\ fan_file \in files
    /\ disk = NoDisk
    /\ now = StartTime
    /\ last = Call("none")

InitHwmonFan == InitFan(EnableFiles)

NextHwmonFan ==
    \/ HwmonFanDriver_ctor
    \/ HwmonFanDriver_init
    \/ \E l \in Levels : HwmonFanDriver_set_speed(l)
    \/ HwmonFanDriver_dtor

SpecHwmonFan == InitHwmonFan /\ [][NextHwmonFan]_vars

InitTpFan == InitFan(StatusFiles)

NextTpFan ==
    \/ TpFanDriver_ctor
    \/ \E t \in WatchdogTimeouts : TpFanDriver_set_watchdog(t)
    \/ \E d \in DepulseDurations : TpFanDriver_set_depulse(d)
    \/ TpFanDriver_init
    \/ \E l \in Levels : TpFanDriver_set_speed(l)
    \/ \E l \in Levels : TpFanDriver_ping_watchdog_and_depulse(l)
    \/ TpFanDriver_dtor
    \/ Tick

SpecTpFan == InitTpFan /\ [][NextTpFan]_vars

(***************************************************************************)
(* Properties of the sensor drivers.                                       *)
(***************************************************************************)
IsRead(d) == last.op = (IF d = "tp" THEN "tp.read_temps" ELSE "hwmon.read_temps")

\* what the last call appended to the aggregate
Appended == SubSeq(temp_state, Len(last.pre) + 1, Len(temp_state))

\* C1: a read_temps() call that returns without error appends exactly
\* num_temps() values to the end of the aggregate and changes no earlier
\* entry, whatever the vendor-ACPI file holds after its prefix at read time.
C1_ReadAppendsNumTemps ==
    \A d \in SensorDrivers :
        (IsRead(d) /\ last.result = "ok") =>
            /\ Len(temp_state) = Len(last.pre) + num_temps(d)
            /\ SubSeq(temp_state, 1, Len(last.pre)) = last.pre

\* C2: with a stored correction vector no longer than num_temps(), a
\* read_temps() on the file the driver was constructed on appends raw[i] +
\* c[i] for the channels the vector covers and raw[i] + 0 for the others, and
\* never reads the vector at or beyond its length.
C2_ShortCorrectionZeroPadded ==
    \A d \in SensorDrivers :
        (IsRead(d) /\ last.result = "ok" /\ ~file_changed[d]) =>
            LET c == sensor[d].correction_ IN
            /\ ~last.oob
            /\ Appended = [i \in 1..Len(last.raw) |->
                              last.raw[i] + (IF i <= Len(c) THEN c[i] ELSE 0)]

\* C3: set_correction(c) with more entries than num_temps() fails with
\* ConfigError and changes neither the aggregate nor the driver (its stored
\* correction vector, its num_temps()); the stored vector is never longer
\* than num_temps().
C3_TooLongCorrectionRejected ==
    /\ [](\A d \in SensorDrivers : Len(sensor[d].correction_) <= num_temps(d))
    /\ [][/\ (last'.op = "set_correction" /\ Len(last'.arg) > num_temps("tp")')
               => last'.result = "ConfigError"
          /\ (last'.op = "set_correction" /\ last'.result = "ConfigError")
               => (sensor' = sensor /\ temp_state' = temp_state)]_vars

C3_Witness ==
    /\ last.op = "set_correction" /\ last.result = "ConfigError"
    /\ Len(last.arg) = num_temps("tp") + 1
    /\ sensor["tp"].correction_ # <<>>
    /\ temp_state # <<>>

\* the text after the prefix, cut at whitespace into its tokens
RECURSIVE Tokens(_, _)
Tokens(body, tok) ==
    IF body = <<>> THEN (IF tok = <<>> THEN <<>> ELSE <<tok>>)
    ELSE IF IsSpace(Head(body))
         THEN (IF tok = <<>> THEN <<>> ELSE <<tok>>) \o Tokens(Tail(body), <<>>)
         ELSE Tokens(Tail(body), Append(tok, Head(body)))

IsIntToken(tok) ==
    LET ds == IF Head(tok) \in {"-", "+"} THEN Tail(tok) ELSE tok
    IN ds # <<>> /\ \A i \in 1..Len(ds) : ds[i] \in Digits

IntOfToken(tok) ==
    LET ds == IF Head(tok) \in {"-", "+"} THEN Tail(tok) ELSE tok
        v == DecValue(ds, 0, Len(ds))
    IN IF Head(tok) = "-" THEN 0 - v ELSE v

HasPrefix(file) ==
    /\ file # NoFile
    /\ Len(file) >= Len(skip_prefix_)
    /\ SubSeq(file, 1, Len(skip_prefix_)) = skip_prefix_

BodyTokens(file) == Tokens(SubSeq(file, Len(skip_prefix_) + 1, Len(file)), <<>>)

\* the prefix followed by nothing but whitespace-separated integers
WellFormed(file) ==
    /\ HasPrefix(file)
    /\ \A i \in 1..Len(BodyTokens(file)) : IsIntToken(BodyTokens(file)[i])

IntsOf(file) ==
    [i \in 1..Len(BodyTokens(file)) |-> IntOfToken(BodyTokens(file)[i])]

\* C10: construction on the prefix followed by whitespace-separated integers
\* sets num_temps() to their number, and read_temps() on the unchanged file
\* appends just these integers in file order, each plus the correction stored
\* at its index.
C10_CountAndReadAgree ==
    LET file == sensor_file["tp"]
        c == sensor["tp"].correction_
    IN /\ (last.op = "TpSensorDriver" /\ WellFormed(file)) =>
              /\ last.result = "ok"
              /\ num_temps("tp") = Len(IntsOf(file))
       /\ (IsRead("tp") /\ ~file_changed["tp"] /\ WellFormed(file)) =>
              /\ last.result # "spin"
              /\ last.result = "IOerror" => IntsOf(file) = <<>>
              /\ Len(Appended) = Len(IntsOf(file))
              /\ \A i \in 1..Len(Appended) :
                    i <= Len(c) => Appended[i] = IntsOf(file)[i] + c[i]

C10_Witness ==
    /\ IsRead("tp") /\ last.result = "ok" /\ ~file_changed["tp"]
    /\ sensor_file["tp"] = ExampleTpFile
    /\ num_temps("tp") = 3
    /\ sensor["tp"].correction_ = ExampleCorrection
    /\ Appended = <<46, 50, -5>>

(***************************************************************************)
(* Properties of the fan drivers.                                          *)
(***************************************************************************)
\* the lines of a text, without their '\n'
RECURSIVE Lines(_)
Lines(file) ==
    IF file = <<>> THEN <<>>
    ELSE LET n == LineLen(file, 0)
         IN <<SubSeq(file, 1, n)>> \o Lines(SubSeq(file, n + 2, Len(file)))

Contains(s, t) == \E q \in 0..(Len(s) - Len(t)) : SubSeq(s, q + 1, q + Len(t)) = t

\* the level string of the last "level:" line: what follows its last blank
ObservedLevel(file) ==
    LET ls == Lines(file)
        L == {i \in 1..Len(ls) : Contains(ls[i], Str_level)}
        l == ls[Max(L)]
        B == {q \in 1..Len(l) : l[q] \in {" ", "\t"}}
    IN IF L = {} THEN <<>>
       ELSE IF B = {} THEN l ELSE SubSeq(l, Max(B) + 1, Len(l))

WritesTo(path) == SelectSeq(last.writes, LAMBDA w : w.path = path)

\* C4: destroying the vendor-ACPI fan driver issues exactly one write to the
\* control path, and it writes "level " followed by the level string that
\* the "level:" status line showed at construction.  (Read as a C string:
\* what follows the first NUL of the written bytes is not held against it.)
C4_DtorRestoresObservedLevel ==
    last.op = "~TpFanDriver" =>
        /\ Len(last.writes) = 1
        /\ last.writes[1].path = "ctrl"
        /\ CStr(last.writes[1].data) =
               <<"l","e","v","e","l"," ">> \o ObservedLevel(fan_file)

\* C6: one ping_watchdog_and_depulse() call takes the depulse path or the
\* watchdog path, never both: with a depulse interval > 0 the watchdog
\* deadline is not evaluated, with a depulse interval of 0 nothing writes
\* "level disengaged".
C6_DepulseXorWatchdog ==
    last.op = "tp.ping" =>
        /\ fan.depulse_ > 0 => "deadline" \notin last.evals
        /\ fan.depulse_ = 0 =>
               /\ "deadline" \in last.evals
               /\ \A i \in 1..Len(last.writes) :
                     last.writes[i].data # Str_level_disengaged
        /\ Len(last.writes) <= 2

C6_Witness ==
    /\ last.op = "tp.ping" /\ last.result = "ok"
    /\ fan.depulse_ > 0
    /\ Len(last.writes) = 2
    /\ last.writes[1].data = Str_level_disengaged
    /\ last.writes[2].data = last.arg.str
    /\ now > StartTime + fan.depulse_

\* C7: constructing the vendor-ACPI fan driver on a readable status text
\* succeeds if and only if one line of the text holds both "commands:" and
\* "level <level>", and fails with SystemError otherwise.
C7_CtorIffCommandsLineHasToken ==
    (last.op = "TpFanDriver" /\ fan_file # NoFile) =>
        /\ last.result \in {"ok", "SystemError"}
        /\ last.result = "ok" <=>
               \E i \in 1..Len(Lines(fan_file)) :
                   /\ Contains(Lines(fan_file)[i], Str_commands)
                   /\ Contains(Lines(fan_file)[i], Str_level_level)

\* C8 as stated: a failed write whose OS error is "permission denied"
\* (EACCES) ends in SystemError.
C8_PermissionDeniedIsSystemError ==
    (last.op = "tp.set_speed" /\ last.writes[1].result = "EACCES") =>
        last.result = "SystemError"

\* C8 as amended: FanDriver::set_speed ends in SystemError when the write
\* fails with EPERM (operation not permitted), in IOerror carrying the OS
\* error code when it fails with any other code, EACCES (permission denied)
\* among them, and returns normally only when the write succeeded.
C8_WriteFailureClassified ==
    last.op = "tp.set_speed" =>
        LET w == last.writes[1] IN
        /\ Len(last.writes) = 1
        /\ w.result = "ok" <=> last.result = "ok"
        /\ w.result = "EPERM" <=> last.result = "SystemError"
        /\ w.result \in Errnos \ {"EPERM"} <=> last.result = "IOerror"
        /\ last.result = "IOerror" => last.code = w.result

C8_Witness ==
    /\ last.op = "tp.set_speed"
    /\ last.writes[1].result = "EACCES"
    /\ last.result = "IOerror" /\ last.code = "EACCES"

\* how FanDriver::set_speed ends for a write that ended with outcome o
Classified(o) ==
    IF o = "ok" THEN "ok" ELSE IF o = "EPERM" THEN "SystemError" ELSE "IOerror"

\* C5: a sysfs-hwmon set_speed() whose first PWM write fails with EINVAL
\* does one init() (one write of "1" to *_enable) and then one more PWM
\* write; a failure of init() or of the second write goes to the caller
\* with nothing retried; a first write that fails otherwise goes to the
\* caller with no init() and no second write.
C5_OneReinitOneRetry ==
    last.op = "hwmon.set_speed" =>
        LET W == last.writes
            text == to_string(last.arg.num)
        IN /\ Len(W) \in 1..3
           /\ Len(WritesTo("pwm")) <= 2 /\ Len(WritesTo("enable")) <= 1
           /\ W[1] = Write("pwm", text, W[1].result)
           /\ W[1].result # "EINVAL" =>
                 /\ Len(W) = 1
                 /\ last.result = Classified(W[1].result)
           /\ W[1].result = "EINVAL" =>
                 /\ Len(W) >= 2
                 /\ W[2] = Write("enable", <<"1">>, W[2].result)
                 /\ W[2].result # "ok" =>
                       /\ Len(W) = 2
                       /\ last.result = "IOerror" /\ last.code = W[2].result
                 /\ W[2].result = "ok" =>
                       /\ Len(W) = 3
                       /\ W[3] = Write("pwm", text, W[3].result)
                       /\ last.result = Classified(W[3].result)
                       /\ last.result = "IOerror" => last.code = W[3].result

C5_Witness ==
    /\ last.op = "hwmon.set_speed"
    /\ Len(last.writes) = 3
    /\ last.writes[1].result = "EINVAL"
    /\ last.writes[3].result = "EINVAL"
    /\ last.result = "IOerror" /\ last.code = "EINVAL"

\* C9: destroying the sysfs-hwmon fan driver writes to *_enable exactly
\* once, and writes the value read from *_enable at construction (the bytes
\* written are that value as a C string: a NUL follows it); nothing between
\* construction and destruction changes the remembered value.
C9_EnableRestoredOnce ==
    /\ [](last.op = "~HwmonFanDriver" =>
            /\ Len(last.writes) = 1
            /\ last.writes[1].path = "enable"
            /\ CStr(last.writes[1].data) = Lines(fan_file)[1]
            /\ last.writes[1].data = fan.initial_state_)
    /\ [][fan.state = "ready" => fan'.initial_state_ = fan.initial_state_]_vars

C9_Witness ==
    /\ last.op = "~HwmonFanDriver"
    /\ fan_file = <<"2","\n","1","\n">>
    /\ CStr(last.writes[1].data) = <<"2">>
    /\ last.result = "IOerror"

(***************************************************************************)
(* Properties of the sysfs-hwmon sensor driver.                            *)
(***************************************************************************)
Abs(x) == IF x < 0 THEN 0 - x ELSE x

\* the quotient of r by b > 0 truncated toward zero: the q whose remainder
\* r - q * b is smaller than b and has the sign of r
TruncQuot(r, b) ==
    CHOOSE q \in (0 - Abs(r))..Abs(r) :
        /\ Abs(r - q * b) < b
        /\ r - q * b # 0 => ((r - q * b > 0) <=> (r > 0))

\* the longest beginning of a token that is an integer
IntPrefixLen(tok) ==
    Max({0} \cup {k \in 1..Len(tok) : IsIntToken(SubSeq(tok, 1, k))})

\* the file can be opened and its first token begins with an integer
HoldsReading(file) ==
    /\ file # NoFile
    /\ Tokens(file, <<>>) # <<>>
    /\ IntPrefixLen(Tokens(file, <<>>)[1]) > 0

ReadingOf(file) ==
    LET tok == Tokens(file, <<>>)[1]
    IN IntOfToken(SubSeq(tok, 1, IntPrefixLen(tok)))

\* C11: read_temps() of the sysfs-hwmon sensor appends exactly one value, the
\* millidegree reading divided by 1000 and truncated toward zero plus
\* correction_[0] where the stored vector has that entry; a file that cannot
\* be opened or does not begin with an integer yields IOerror and appends
\* nothing.
C11_HwmonTruncatesTowardZero ==
    IsRead("hwmon") =>
        LET file == sensor_file["hwmon"]
            c == sensor["hwmon"].correction_
        IN IF HoldsReading(file)
           THEN /\ last.result = "ok"
                /\ Len(Appended) = 1
                /\ SubSeq(temp_state, 1, Len(last.pre)) = last.pre
                /\ Len(c) >= 1 =>
                       Appended[1] = TruncQuot(ReadingOf(file), 1000) + c[1]
           ELSE /\ last.result = "IOerror"
                /\ temp_state = last.pre

C11_Witness ==
    /\ IsRead("hwmon")
    /\ sensor_file["hwmon"] = <<"4","3","0","0","0","\n">>
    /\ sensor["hwmon"].correction_ = <<2>>
    /\ Appended = <<45>>

(***************************************************************************)
(* Properties of the watchdog clock of the vendor-ACPI fan driver.         *)
(***************************************************************************)
\* a step in which only time passes
IsTick == last' = last /\ fan' = fan /\ now' = now + 1

\* the watchdog deadline as ping_watchdog_and_depulse sees it at time t
Due(f, t) == f.last_watchdog_ping_ + f.watchdog_ + sleeptime >= t

\* C12: with depulse_ == 0, ping_watchdog_and_depulse(level) re-issues
\* set_speed(level) (one write of level.text, the last-write time set when it
\* succeeds) exactly when last write + watchdog timeout + polling period is
\* not earlier than now; otherwise it writes nothing and changes no state.
C12_WatchdogPingWhenDue ==
    [][(last'.op = "tp.ping" /\ fan.state = "ready" /\ fan.depulse_ = 0
            /\ now' = now) =>
          IF Due(fan, now)
          THEN /\ Len(last'.writes) = 1
               /\ last'.writes[1].path = "ctrl"
               /\ last'.writes[1].data = last'.arg.str
               /\ last'.result = "ok" <=> last'.writes[1].result = "ok"
               /\ fan' = IF last'.result = "ok"
                         THEN [fan EXCEPT !.last_watchdog_ping_ = now]
                         ELSE fan
          ELSE /\ last'.writes = <<>>
               /\ last'.result = "ok"
               /\ fan' = fan]_vars

\* a ping issued exactly at the deadline, whose write failed
C12_Witness ==
    /\ last.op = "tp.ping" /\ fan.depulse_ = 0
    /\ Len(last.writes) = 1 /\ last.result # "ok"
    /\ fan.last_watchdog_ping_ > 0
    /\ fan.last_watchdog_ping_ + fan.watchdog_ + sleeptime = now

\* the writes of a ping on the depulse path
DepulseWrites ==
    (last.op = "tp.ping" /\ fan.depulse_ > 0) =>
        /\ Len(last.writes) >= 1
        /\ last.writes[1].path = "ctrl"
        /\ last.writes[1].data = Str_level_disengaged
        /\ IF last.writes[1].result # "ok"
           THEN /\ Len(last.writes) = 1
                /\ last.result # "ok"
           ELSE /\ Len(last.writes) = 2
                /\ last.writes[2].path = "ctrl"
                /\ last.writes[2].data = last.arg.str
                /\ last.result = "ok" <=> last.writes[2].result = "ok"

\* C14: with depulse_ > 0, one ping_watchdog_and_depulse(level) writes
\* "level disengaged", pauses for depulse_, writes level.text and then
\* records the last-write time; when the first write fails the error
\* propagates, no time passes and nothing else is written.
C14_DepulseTwoWritesInOrder ==
    /\ []DepulseWrites
    /\ [][(last'.op = "tp.ping" /\ fan.state = "ready" /\ fan.depulse_ > 0
               /\ ~IsTick) =>
             IF last'.writes[1].result # "ok"
             THEN now' = now /\ fan' = fan
             ELSE /\ now' = now + fan.depulse_
                  /\ fan' = IF last'.result = "ok"
                            THEN [fan EXCEPT !.last_watchdog_ping_ = now']
                            ELSE fan]_vars

C14_Witness ==
    /\ last.op = "tp.ping" /\ fan.depulse_ > 0
    /\ Len(last.writes) = 2 /\ last.result = "ok"
    /\ last.writes[2].data = Level(127).str
    /\ fan.last_watchdog_ping_ = now /\ now > StartTime

\* C15: last_watchdog_ping_ becomes the current time in every set_speed(level)
\* whose write succeeds, and keeps its value in a set_speed(level) whose write
\* fails, in init() and in a ping that ends without a successful write of
\* level.text; no other call changes it.
C15_WatchdogClockFrame ==
    [][(fan.state = "ready" /\ ~IsTick) =>
          /\ last'.op = "tp.set_speed" =>
                /\ now' = now
                /\ fan'.last_watchdog_ping_ =
                       IF last'.result = "ok" THEN now
                       ELSE fan.last_watchdog_ping_
          /\ last'.op = "tp.init" =>
                fan'.last_watchdog_ping_ = fan.last_watchdog_ping_
          /\ last'.op = "tp.ping" =>
                fan'.last_watchdog_ping_ =
                    IF last'.result = "ok" /\ last'.writes # <<>> THEN now'
                    ELSE fan.last_watchdog_ping_
          /\ fan'.last_watchdog_ping_ # fan.last_watchdog_ping_ =>
                last'.op \in {"tp.set_speed", "tp.ping"}]_vars

\* a set_speed whose write failed, after an earlier one that succeeded
C15_Witness ==
    /\ last.op = "tp.set_speed" /\ last.result # "ok"
    /\ fan.last_watchdog_ping_ >= StartTime
    /\ fan.last_watchdog_ping_ < now

\* C19: with depulse_ == 0 and a watchdog timeout > 0, every
\* ping_watchdog_and_depulse(level) that returns normally has written
\* level.text, also the first one after construction and one that comes
\* later than timeout + polling period after the last write.
C19_EveryPingWrites ==
    (last.op = "tp.ping" /\ fan.depulse_ = 0 /\ fan.watchdog_ > 0
        /\ last.result = "ok") => last.writes # <<>>

(***************************************************************************)
(* Properties of the vendor-ACPI sensor driver on malformed files.         *)
(***************************************************************************)
\* the tokens read_temps() finds behind the offset it seeks to
TokensRead ==
    LET file == sensor_file["tp"]
    IN Tokens(SubSeq(file, sensor["tp"].skip_bytes_ + 1, Len(file)), <<>>)

\* C13: a read_temps() of the vendor-ACPI sensor that meets a token which
\* is no integer ends with IOerror: it neither returns normally nor goes on
\* reading.
C13_BadTokenIsIOerror ==
    (/\ IsRead("tp")
     /\ sensor_file["tp"] # NoFile
     /\ sensor["tp"].skip_bytes_ >= 0
     /\ \E i \in 1..Len(TokensRead) : ~IsIntToken(TokensRead[i]))
        => last.result = "IOerror"

\* C16: construction on a file that does not begin with "temperatures:"
\* fails with SystemError; a driver whose construction failed has no
\* num_temps() set and has appended nothing.
C16_CtorRejectsOtherFormats ==
    /\ (/\ last.op = "TpSensorDriver"
        /\ sensor_file["tp"] # NoFile
        /\ ~HasPrefix(sensor_file["tp"]))
           => /\ last.result = "SystemError"
              /\ sensor["tp"].state = "failed"
    /\ sensor["tp"].state = "failed"
           => /\ num_temps("tp") = 0
              /\ sensor["tp"].correction_ = <<>>
              /\ temp_state = <<>>

C16_Witness ==
    /\ last.op = "TpSensorDriver" /\ last.result = "SystemError"
    /\ sensor_file["tp"] =
           <<"t","e","m","p","e","r","a","t","u","r","e","s",";"," ","4","\n">>
    /\ sensor["tp"].state = "failed"

\* C18: every read_temps() of the vendor-ACPI sensor returns or throws: its
\* loop does not go on forever, whatever the file holds.
C18_ReadTerminates == IsRead("tp") => ~Hung

(***************************************************************************)
(* Properties of the disk-S.M.A.R.T. sensor driver.                        *)
(***************************************************************************)
\* C17: a read_temps() on a disk that is asleep issues neither the
\* S.M.A.R.T. data read nor the temperature query, leaves the disk asleep
\* and, when it returns normally, has appended exactly the value 0; whatever
\* the option dnd_disk is set to.
C17_SleepingDiskNotWoken ==
    [][(/\ last'.op = "atasmart.read_temps"
        /\ disk.state = "ready" /\ disk.sleeping
        /\ (last' # last \/ temp_state' # temp_state)) =>
          /\ last'.evals \cap {"smart_read_data", "smart_get_temperature"} = {}
          /\ disk'.sleeping
          /\ last'.result = "ok" => temp_state' = temp_state \o <<0>>]_vars

====
